---- MODULE Spec2Model ----
(***************************************************************************)
(* Model of src/index.py: the sequential LinkedIn job scraper.             *)
(*                                                                         *)
(* run_through_csv reads a company list, validates an index range, and for *)
(* every row of the range resolves the company id, fetches its jobs (with  *)
(* one fallback name), and appends the rows to jobs.csv, or the company to *)
(* no_jobs_found.csv, or an entry to error_records.csv.                    *)
(*                                                                         *)
(* The external collaborators (the typeahead lookup behind requests.get    *)
(* and jobspy.scrape_jobs) and the file system's write failures are the    *)
(* environment: their outcome for one loop iteration is the record w that  *)
(* ProcessCompany draws.                                                   *)
(***************************************************************************)
EXTENDS Integers, Sequences, FiniteSets, TLC

\* ------------------------------------------------------------------ bounds

\* The longest input CSV (number of data rows).
MaxRows == 2

\* How often the program is run on the same output directory (RerunSpec).
MaxRuns == 2

\* ------------------------------------------------------------ value domains

\* Python's None and pandas' missing value (a float NaN).
None == "None"
NaN == "NaN"

\* Company names of the input's 'Company' column and of its
\* 'Company Name for Emails' column.
CompanyNames == {"Acme", "Nil Co"}
FallbackNames == {"Acme Inc"}

\* The run parameters that do not vary: the output directory and the location.
OutDir == "out"
Location == "NYC"

\* The current working directory, as os.path.join("", name) resolves it.
Cwd == ""

\* A path is <<directory, file name>>: os.path.join(dir, name).
join(dir, name) == <<dir, name>>

JobsFile == join(OutDir, "jobs.csv")
NoJobsFile == join(OutDir, "no_jobs_found.csv")
ErrorFile == join(OutDir, "error_records.csv")
CwdErrorFile == join(Cwd, "error_records.csv")
Paths == {JobsFile, NoJobsFile, ErrorFile, CwdErrorFile}

\* A file is absent, or holds a sequence of CSV lines.
Absent == [exists |-> FALSE, lines |-> <<>>]

HeaderLine(cols) == [t |-> "header", cols |-> cols]
JobRow(title, company, location) ==
    [t |-> "row", title |-> title, company |-> company, location |-> location]
NoJobsRow(company) == [t |-> "row", Company |-> company]
ErrorRow(company, msg) == [t |-> "row", Company |-> company, Error |-> msg]

\* ------------------------------------------------------- python primitives

\* bool(v) for the values a fallback cell can hold: None is false; a name is
\* a non-empty string, and NaN is a non-zero float, so both are true.
Truthy(v) == v # None /\ v # ""

\* pd.isna taken to hold of None only: NaN, the value of an empty cell, is
\* not seen as missing.
isna_only_none(v) == v = None

\* pd.isna(v)
isna(v) == v = NaN \/ v = None

\* DataFrame.to_csv(path, index=False): (re)writes the file, header first.
to_csv_write(cols, rows) ==
    [exists |-> TRUE, lines |-> <<HeaderLine(cols)>> \o rows]

\* DataFrame.to_csv(path, mode='a', header=False, index=False)
to_csv_append(f, rows) == [exists |-> TRUE, lines |-> f.lines \o rows]

\* ------------------------------------------------- external collaborators

\* What the typeahead lookup does for one name: it returns a candidate with
\* a numeric id ("id") or with an id int() rejects ("badid"), returns no
\* candidate ("nocand"), or the request, the JSON decoding or the indexing of
\* the answer raises.
ResolveOutcomes == {"id", "badid", "nocand", "decode", "request", "unexpected"}
ResolveFailures == ResolveOutcomes \ {"id", "badid"}

\* What scrape_jobs does for one company id: it raises, returns an empty
\* frame, or returns the employer's postings.
FetchOutcomes == {"raise", "none", "rows"}

\* The id the lookup service knows a name by (the query for NaN is "nan").
IdOf(name) ==
    CASE name = "Acme" -> "101"
      [] name = "Nil Co" -> "102"
      [] name = "Acme Inc" -> "103"
      [] OTHER -> "104"

IntLiterals == {"101", "102", "103", "104"}

\* int(company_id): the number, or a ValueError (raises |-> TRUE).
int(s) ==
    IF s \in IntLiterals
    THEN [raises |-> FALSE, value |-> CASE s = "101" -> 101 [] s = "102" -> 102
                                        [] s = "103" -> 103 [] OTHER -> 104]
    ELSE [raises |-> TRUE, value |-> 0]

\* The employer the job board files the postings of an id under.
EmployerOf(n) ==
    CASE n = 101 -> "Acme"
      [] n = 102 -> "Nil Co"
      [] n = 103 -> "Acme Inc"
      [] OTHER -> "nan"

\* scrape_jobs(site_name="linkedin", linkedin_company_ids=[n], location=...)
\* when it does not raise: the rows of that employer.
scrape_jobs(n, location, f) ==
    IF f = "rows"
    THEN <<JobRow("t1", EmployerOf(n), location), JobRow("t2", EmployerOf(n), location)>>
    ELSE <<>>

\* ------------------------------------------------------------------ state

VARIABLES
    csv,          \* the input file: [exists, hasCompany, hasFallback, rows]
    start_arg,    \* --start
    end_arg,      \* --end: <<>> when not given (None), <<n>> when given
    OUTPUT_DIR,   \* the module-level global of line 16
    fs,           \* the files of Paths
    outDirExists, \* os.path.exists(output_dir)
    pc,           \* "start", "loop" (inside the for loop) or "done"
    idx,          \* the loop variable (0-based)
    end_idx,      \* the local end_idx after line 135
    result,       \* how the current run ended, "running" until it does
    attempts,     \* per row, the calls of scrape_company_linkedin_jobs this run
    last,         \* what the latest loop iteration saw and did
    atStart,      \* the file system when the current run began
    runs          \* the earlier runs on this output directory, oldest first

vars == <<csv, start_arg, end_arg, OUTPUT_DIR, fs, outDirExists, pc, idx,
          end_idx, result, attempts, last, atStart, runs>>

inputs == <<csv, start_arg, end_arg>>

RowIdx == 0 .. (MaxRows - 1)

\* df[col].iloc[i], 0-based.
iloc(rows, i) == rows[i + 1]

\* The rows a CSV of this shape can hold: a missing cell reads as NaN, and a
\* row of a file without the fallback column has no fallback at all.
CsvRows(hasFallback) ==
    IF hasFallback
    THEN [company : {"Acme"}, fallback : FallbackNames \cup {NaN}]
    ELSE [company : CompanyNames \cup {NaN}, fallback : {None}]

SeqsUpTo(S, n) == UNION {[1 .. k -> S] : k \in 0 .. n}

Csvs ==
    {[exists |-> FALSE, hasCompany |-> FALSE, hasFallback |-> FALSE, rows |-> <<>>],
     [exists |-> TRUE, hasCompany |-> FALSE, hasFallback |-> FALSE, rows |-> <<>>]}
    \cup UNION {{[exists |-> TRUE, hasCompany |-> TRUE, hasFallback |-> h, rows |-> r] :
                    r \in SeqsUpTo(CsvRows(h), MaxRows)} : h \in BOOLEAN}

NoIteration ==
    [kind |-> "none", idx |-> -1, company |-> None, fallback |-> None]

Snapshot(files, dir) == [fs |-> files, dir |-> dir]

Init ==
    /\ csv \in Csvs
    /\ start_arg \in -1 .. MaxRows
    /\ end_arg \in {<<>>} \cup {<<n>> : n \in -1 .. MaxRows}
    /\ OUTPUT_DIR = ""
    /\ fs = [p \in Paths |-> Absent]
    /\ outDirExists = FALSE
    /\ pc = "start"
    /\ idx = 0
    /\ end_idx = 0
    /\ result = "running"
    /\ attempts = [i \in RowIdx |-> 0]
    /\ last = NoIteration
    /\ atStart = Snapshot([p \in Paths |-> Absent], FALSE)
    /\ runs = <<>>

\* ------------------------------------------------------------- operations

\* save_error_records(company_name, error_message, output_dir), lines 106-116.
\* A write that raises (fails) is logged and swallowed.
save_error_records(files, company_name, error_message, output_dir, fails) ==
    LET output_file == join(output_dir, "error_records.csv")
        row == ErrorRow(company_name, error_message)
    IN  IF fails THEN files
        ELSE IF ~files[output_file].exists
        THEN [files EXCEPT ![output_file] = to_csv_write(<<"Company", "Error">>, <<row>>)]
        ELSE [files EXCEPT ![output_file] = to_csv_append(@, <<row>>)]

\* save_empty_or_none_records(company_name, output_dir), lines 93-103.
save_empty_or_none_records(files, company_name, output_dir, fails) ==
    LET output_file == join(output_dir, "no_jobs_found.csv")
        row == NoJobsRow(company_name)
    IN  IF fails THEN files
        ELSE IF ~files[output_file].exists
        THEN [files EXCEPT ![output_file] = to_csv_write(<<"Company">>, <<row>>)]
        ELSE [files EXCEPT ![output_file] = to_csv_append(@, <<row>>)]

\* get_company_linkedin_id(company_name), lines 17-50, under lookup outcome r.
\* Returns the id (None when not found) and the files after its error record,
\* which goes to the directory the global OUTPUT_DIR names.
get_company_linkedin_id(files, company_name, r, logFails) ==
    CASE r = "id" -> [id |-> IdOf(company_name), files |-> files]
      [] r = "badid" -> [id |-> "urn:li:company", files |-> files]
      [] r = "nocand" -> [id |-> None, files |-> files]
      [] r = "decode" ->
            [id |-> None,
             files |-> save_error_records(files, company_name,
                           "JSONDecodeError: Failed to decode JSON", OUTPUT_DIR, logFails)]
      [] r = "request" ->
            [id |-> None,
             files |-> save_error_records(files, company_name,
                           "RequestException", OUTPUT_DIR, logFails)]
      [] OTHER ->
            [id |-> None,
             files |-> save_error_records(files, company_name,
                           "UnexpectedError", OUTPUT_DIR, logFails)]

\* Lines 61-67 and 77-83: int(company_id), then scrape_jobs. Either may raise.
fetch_by_id(company_id, location, f) ==
    LET n == int(company_id)
    IN  IF n.raises \/ f = "raise"
        THEN [raises |-> TRUE, jobs |-> <<>>]
        ELSE [raises |-> FALSE, jobs |-> scrape_jobs(n.value, location, f)]

\* scrape_company_linkedin_jobs(company_name, location, fallback_company_name),
\* lines 52-91, in world w. jobs is the returned frame's rows (an empty frame
\* is <<>>); calls is the trace of lookups and fetches it made.
scrape_company_linkedin_jobs(files, company_name, location, fallback_company_name, w) ==
    LET a == get_company_linkedin_id(files, company_name, w.r1, w.logFails)
        c1 == <<<<"resolve", company_name>>>>
    IN  IF a.id = None
        THEN [jobs |-> <<>>, files |-> a.files, calls |-> c1]
        ELSE
          LET j1 == fetch_by_id(a.id, location, w.f1)
              c2 == Append(c1, <<"fetch", company_name>>)
          IN  IF j1.raises
              THEN [jobs |-> <<>>, files |-> a.files, calls |-> c2]
              ELSE IF j1.jobs = <<>> /\ Truthy(fallback_company_name)
              THEN
                LET b == get_company_linkedin_id(a.files, fallback_company_name,
                                                 w.r2, w.logFails)
                    c3 == Append(c2, <<"resolve", fallback_company_name>>)
                IN  IF b.id = None
                    THEN [jobs |-> <<>>, files |-> b.files, calls |-> c3]
                    ELSE
                      LET j2 == fetch_by_id(b.id, location, w.f2)
                          c4 == Append(c3, <<"fetch", fallback_company_name>>)
                      IN  [jobs |-> j2.jobs, files |-> b.files, calls |-> c4]
              ELSE [jobs |-> j1.jobs, files |-> a.files, calls |-> c2]

\* process_company without the `except Exception` clause of line 167: the
\* failure of the append leaves the statement.
process_company_no_except(files, company, location, company_fallback, output_dir, w) ==
    LET s == scrape_company_linkedin_jobs(files, company, location, company_fallback, w)
        stored ==
            IF s.jobs = <<>>
            THEN save_empty_or_none_records(s.files, company, output_dir, w.logFails)
            ELSE IF w.jobsFails
            THEN s.files
            ELSE [s.files EXCEPT ![join(output_dir, "jobs.csv")] = to_csv_append(@, s.jobs)]
    IN  [files |-> stored, jobs |-> s.jobs, calls |-> s.calls,
         raised |-> (s.jobs # <<>> /\ w.jobsFails)]

\* process_company with the `else` of line 163 lost: the no-jobs entry is
\* written for every company, also for one whose rows were appended.
process_company_always_logs(files, company, location, company_fallback, output_dir, w) ==
    LET s == scrape_company_linkedin_jobs(files, company, location, company_fallback, w)
        logged == save_empty_or_none_records(s.files, company, output_dir, w.logFails)
        stored ==
            IF s.jobs = <<>>
            THEN logged
            ELSE IF w.jobsFails
            THEN save_error_records(logged, company, "to_csv failed", output_dir, w.logFails)
            ELSE [logged EXCEPT ![join(output_dir, "jobs.csv")] = to_csv_append(@, s.jobs)]
    IN  [files |-> stored, jobs |-> s.jobs, calls |-> s.calls, raised |-> FALSE]

\* The per-company try statement of run_through_csv, lines 158-170. raised
\* says whether an exception leaves the statement: `except Exception` catches
\* the append's failure and save_error_records swallows its own, so none does.
\* An append that fails (w.jobsFails) is taken to have written nothing; one
\* flag, w.logFails, fails every write to a log file of the iteration.
process_company(files, company, location, company_fallback, output_dir, w) ==
    LET s == scrape_company_linkedin_jobs(files, company, location, company_fallback, w)
        stored ==
            IF s.jobs = <<>>
            THEN save_empty_or_none_records(s.files, company, output_dir, w.logFails)
            ELSE IF w.jobsFails
            THEN save_error_records(s.files, company, "to_csv failed", output_dir, w.logFails)
            ELSE [s.files EXCEPT ![join(output_dir, "jobs.csv")] = to_csv_append(@, s.jobs)]
    IN  [files |-> stored, jobs |-> s.jobs, calls |-> s.calls, raised |-> FALSE]

\* ---------------------------------------------------------- the environment

\* The part of a world that no call of the iteration consults.
Unused == "n/a"

ErrorKinds == {"decode", "request", "unexpected"}

\* The fetch outcome matters when the lookup returned an id that int() takes.
F1s(r1) == IF r1 = "id" THEN FetchOutcomes ELSE {Unused}

\* What the lookup would do for the fallback name. The code consults it when
\* the primary fetch is empty. When the primary lookup found nothing the code
\* does not ask; the world then still says whether the fallback name is one
\* the services know ("id", with postings) or not.
R2s(fallback, r1, f1) ==
    IF Truthy(fallback) /\ r1 = "id" /\ f1 = "none" THEN ResolveOutcomes
    ELSE IF Truthy(fallback) /\ r1 \in ResolveFailures THEN {"id", Unused}
    ELSE {Unused}

F2s(r1, r2) ==
    IF r2 = "id"
    THEN IF r1 = "id" THEN FetchOutcomes ELSE {"rows"}
    ELSE {Unused}

\* Whether the iteration tries to write to one of the two logs at all.
LogWriteAttempted(w, res) ==
    \/ res.jobs = <<>>
    \/ w.jobsFails
    \/ w.r1 \in ErrorKinds
    \/ (Len(res.calls) >= 3 /\ w.r2 \in ErrorKinds)

\* A write failure is drawn only for a write the iteration makes.
Canonical(w, res) ==
    /\ w.jobsFails => res.jobs # <<>>
    /\ w.logFails => LogWriteAttempted(w, res)

\* ---------------------------------------------------------- run_through_csv

\* clamp_end had it treated a too large end index as an invalid range.
clamp_end_reject(end_a, total_rows) ==
    IF end_a = <<>> THEN total_rows - 1
    ELSE IF end_a[1] >= total_rows THEN -1 ELSE end_a[1]

\* Lines 134-135: a missing or too large end index becomes the last row.
clamp_end(end_a, total_rows) ==
    IF end_a = <<>> \/ end_a[1] >= total_rows THEN total_rows - 1 ELSE end_a[1]

\* invalid_range without the check of start against end.
invalid_range_no_order(start_idx, e) == start_idx < 0

\* Line 137.
invalid_range(start_idx, e) == start_idx < 0 \/ start_idx > e

\* loop_continues for range(start_idx, end_idx): the end index left out.
loop_continues_exclusive(i, e) == i < e

\* Line 150: range(start_idx, end_idx + 1) still has index i to yield.
loop_continues(i, e) == i <= e

\* input_ok without the check for the 'Company' column.
input_ok_any_columns(c) == c.exists

\* Lines 123-131: the file exists and has a 'Company' column.
input_ok(c) == c.exists /\ c.hasCompany

Finish(how) ==
    /\ pc' = "done"
    /\ result' = how

\* Lines 123-131: a missing file or a file without the 'Company' column.
RejectInput ==
    /\ pc = "start"
    /\ ~input_ok(csv)
    /\ Finish("input_error")
    /\ UNCHANGED <<inputs, runs, OUTPUT_DIR, fs, outDirExists, idx, end_idx,
                   attempts, last, atStart>>

\* Lines 133-139.
RejectRange ==
    /\ pc = "start"
    /\ input_ok(csv)
    /\ LET e == clamp_end(end_arg, Len(csv.rows))
       IN  /\ invalid_range(start_arg, e)
           /\ end_idx' = e
    /\ Finish("range_error")
    /\ UNCHANGED <<inputs, runs, OUTPUT_DIR, fs, outDirExists, idx,
                   attempts, last, atStart>>

\* Lines 133-148 on a valid range: create the directory and an empty jobs.csv
\* when they do not exist (both taken to succeed), and enter the loop.
\* OUTPUT_DIR = output_dir on line 122 binds a local of run_through_csv: the
\* global keeps its value.
BeginLoop ==
    /\ pc = "start"
    /\ input_ok(csv)
    /\ LET e == clamp_end(end_arg, Len(csv.rows))
       IN  /\ ~invalid_range(start_arg, e)
           /\ end_idx' = e
    /\ outDirExists' = TRUE
    /\ fs' = [fs EXCEPT ![JobsFile] = IF @.exists THEN @ ELSE to_csv_write(<<>>, <<>>)]
    /\ pc' = "loop"
    /\ idx' = start_arg
    /\ UNCHANGED <<inputs, runs, OUTPUT_DIR, result, attempts, last,
                   atStart>>

\* Lines 151-154: a row without a company name is passed over.
SkipMissing ==
    /\ pc = "loop"
    /\ loop_continues(idx, end_idx)
    /\ LET company == iloc(csv.rows, idx).company
           company_fallback == iloc(csv.rows, idx).fallback
       IN  /\ isna(company)
           /\ last' = [kind |-> "skip", idx |-> idx, company |-> company,
                       fallback |-> company_fallback]
    /\ idx' = idx + 1
    /\ UNCHANGED <<inputs, runs, OUTPUT_DIR, fs, outDirExists, pc, end_idx, result,
                   attempts, atStart>>

Lens(files) == [p \in Paths |-> Len(files[p].lines)]

\* Lines 151-173 for a row with a company name: one whole iteration.
ProcessCompany ==
    /\ pc = "loop"
    /\ loop_continues(idx, end_idx)
    /\ LET company == iloc(csv.rows, idx).company
           company_fallback ==
               IF csv.hasFallback THEN iloc(csv.rows, idx).fallback ELSE None
       IN  /\ ~isna(company)
           /\ \E r1 \in ResolveOutcomes :
              \E f1 \in F1s(r1) :
              \E r2 \in R2s(company_fallback, r1, f1) :
              \E f2 \in F2s(r1, r2) :
              \E jobsFails \in BOOLEAN, logFails \in BOOLEAN :
                LET w == [r1 |-> r1, f1 |-> f1, r2 |-> r2, f2 |-> f2,
                          jobsFails |-> jobsFails, logFails |-> logFails]
                    res == process_company(fs, company, Location, company_fallback,
                                           OutDir, w)
                IN  /\ Canonical(w, res)
                    /\ fs' = res.files
                    /\ attempts' = [attempts EXCEPT ![idx] = @ + 1]
                    /\ last' = [kind |-> "company", idx |-> idx, company |-> company,
                                fallback |-> company_fallback, w |-> w,
                                calls |-> res.calls,
                                before |-> Lens(fs)]
                    /\ IF res.raised
                       THEN Finish("crashed") /\ idx' = idx
                       ELSE idx' = idx + 1 /\ UNCHANGED <<pc, result>>
    /\ UNCHANGED <<inputs, runs, OUTPUT_DIR, outDirExists, end_idx, atStart>>

\* The range is exhausted: run_through_csv returns.
FinishLoop ==
    /\ pc = "loop"
    /\ ~loop_continues(idx, end_idx)
    /\ Finish("completed")
    /\ UNCHANGED <<inputs, runs, OUTPUT_DIR, fs, outDirExists, idx, end_idx,
                   attempts, last, atStart>>

Next ==
    \/ RejectInput
    \/ RejectRange
    \/ BeginLoop
    \/ SkipMissing
    \/ ProcessCompany
    \/ FinishLoop

Spec == Init /\ [][Next]_vars

\* ------------------------------------------------------------------ re-runs

\* The data rows of a file.
rows_of(f) == SelectSeq(f.lines, LAMBDA l : l.t = "row")

\* The program has ended and is started again with the same arguments on the
\* same output directory (__main__, lines 191-199): the files stay, the
\* locals of run_through_csv are fresh. runs keeps how the run that ended
\* went and how many rows it added to jobs.csv.
Rerun ==
    /\ pc = "done"
    /\ Len(runs) < MaxRuns - 1
    /\ runs' = Append(runs,
                  [result |-> result,
                   added |-> Len(rows_of(fs[JobsFile]))
                               - Len(rows_of(atStart.fs[JobsFile]))])
    /\ pc' = "start"
    /\ result' = "running"
    /\ idx' = 0
    /\ end_idx' = 0
    /\ attempts' = [i \in RowIdx |-> 0]
    /\ last' = NoIteration
    /\ atStart' = Snapshot(fs, outDirExists)
    /\ UNCHANGED <<inputs, OUTPUT_DIR, fs, outDirExists>>

\* The whole file is processed (no --start, no --end) and the input has no
\* fallback column.
InitRerun ==
    /\ Init
    /\ start_arg = 0
    /\ end_arg = <<>>
    /\ ~csv.hasFallback

NextRerun == Next \/ Rerun

RerunSpec == InitRerun /\ [][NextRerun]_vars

\* ------------------------------------------------------------------ claims

\* What the properties below read off a state.
WellFormedInput == csv.exists /\ csv.hasCompany
Total == Len(csv.rows)
EndGiven == end_arg # <<>>
NoAttempt == \A i \in RowIdx : attempts[i] = 0
HasCompany(i) == i < Total /\ ~isna(iloc(csv.rows, i).company)
DataRows(p) == SelectSeq(fs[p].lines, LAMBDA l : l.t = "row")
Added(p) == SubSeq(fs[p].lines, last.before[p] + 1, Len(fs[p].lines))
AddedRows(p) == SelectSeq(Added(p), LAMBDA l : l.t = "row")
CountFor(rows, name) == Cardinality({i \in 1 .. Len(rows) : rows[i].Company = name})
Processed == last.kind = "company"
FallbackTried == Processed /\ Len(last.calls) >= 3
NoWriteFailure == Processed /\ ~last.w.jobsFails /\ ~last.w.logFails

\* How far the run is from its end: 0 when it has ended.
StepsLeft ==
    CASE pc = "start" -> MaxRows + 3
      [] pc = "loop" -> end_idx - idx + 2
      [] OTHER -> 0

\* C1: a failure while processing one company never aborts the run. Whatever
\* the lookups, the fetches and the writes of each company do: the run can
\* always take a step until it has ended, every step brings it closer to its
\* end (so it does end), no exception ever ends the loop early, and on a
\* well-formed input with a valid range it ends at the end of the range with
\* every row of the range that names a company attempted.
C1_RunCompletes ==
    /\ [](pc # "done" => ENABLED Next)
    /\ [][StepsLeft' < StepsLeft /\ StepsLeft' >= 0]_vars
    /\ [](result # "crashed")
    /\ []((pc = "done" /\ WellFormedInput
             /\ ~invalid_range(start_arg, clamp_end(end_arg, Total)))
            => /\ result = "completed"
               /\ \A i \in start_arg .. end_idx : HasCompany(i) => attempts[i] = 1)

\* C1's case: the run completed after the append of the first company's rows
\* failed (the driver logged it) and the second company was then processed.
C1_Witness ==
    /\ result = "completed"
    /\ Processed /\ last.idx = 1 /\ ~last.w.jobsFails
    /\ last.before[ErrorFile] = 2
    /\ attempts[0] = 1 /\ attempts[1] = 1

\* In the latest iteration: the lookup of the company's own name found no id;
\* the fetch for the company's own name, or for its fallback name, raised; the
\* company's fetches returned no rows and nothing failed on the way.
PrimaryLookupFailed == Processed /\ last.w.r1 \in ResolveFailures
FetchRaised ==
    /\ Processed
    /\ \/ (Len(last.calls) >= 2 /\ last.w.r1 = "id" /\ last.w.f1 = "raise")
       \/ (Len(last.calls) = 4 /\ last.w.r2 = "id" /\ last.w.f2 = "raise")
EmptyWithoutFailure ==
    /\ NoWriteFailure
    /\ last.w.r1 = "id" /\ last.w.f1 = "none"
    /\ FallbackTried => (last.w.r2 = "id" /\ last.w.f2 = "none")

\* C2: empty-result companies never appear in the error log and failed-lookup
\* companies never appear in the no-jobs log: the iteration of a company whose
\* resolution failed adds no entry for it to no_jobs_found.csv, and the
\* iteration of a company whose fetch returned zero rows without any failure
\* adds no entry for it to an error_records.csv.
C2_LogsDisjoint ==
    /\ PrimaryLookupFailed => CountFor(AddedRows(NoJobsFile), last.company) = 0
    /\ EmptyWithoutFailure =>
          /\ CountFor(AddedRows(ErrorFile), last.company) = 0
          /\ CountFor(AddedRows(CwdErrorFile), last.company) = 0

\* C3: when the fetch call raises for a company (and the log writes succeed),
\* the run writes exactly one ErrorEntry for that company to the error log,
\* writes nothing for it to the no-jobs log, and goes on to the next company.
C3_FetchErrorLogged ==
    (FetchRaised /\ NoWriteFailure) =>
        /\ CountFor(AddedRows(ErrorFile), last.company) = 1
        /\ Len(AddedRows(ErrorFile)) = 1
        /\ Len(AddedRows(NoJobsFile)) = 0
        /\ result # "crashed"

\* The names the resolver returned None for in the latest iteration.
NotFoundNames ==
    (IF PrimaryLookupFailed THEN {last.company} ELSE {})
    \cup (IF FallbackTried /\ last.w.r2 \in ResolveFailures THEN {last.fallback} ELSE {})

TaggedKinds == {"JSONDecodeError: Failed to decode JSON", "RequestException", "UnexpectedError"}

\* The scenario of C4: companies ["Acme", "Nil Co"], range [0,1]; Acme's
\* iteration appended its 2 rows to the fresh jobs.csv and logged nothing, and
\* the resolution of "Nil Co" then failed.
C4_Scenario ==
    /\ WellFormedInput /\ Total = 2
    /\ csv.rows[1].company = "Acme" /\ csv.rows[2].company = "Nil Co"
    /\ start_arg = 0 /\ end_arg = <<1>>
    /\ result = "completed"
    /\ PrimaryLookupFailed /\ NoWriteFailure /\ last.idx = 1
    /\ last.before = [p \in Paths |-> IF p = JobsFile THEN 3 ELSE 0]

\* C4: whenever the resolver returns None for a name, for whatever cause, it
\* has emitted exactly one ErrorEntry for that name, tagged with a failure
\* kind (in whichever error_records.csv it writes to); and the two-company
\* scenario ends with 2 output rows, 1 error-log row, for "Nil Co", and 0
\* no-jobs rows.
C4_NotFoundLogged ==
    /\ NoWriteFailure =>
          \A name \in NotFoundNames :
              LET rows == AddedRows(ErrorFile) \o AddedRows(CwdErrorFile)
              IN  /\ CountFor(rows, name) = 1
                  /\ \A k \in 1 .. Len(rows) :
                        rows[k].Company = name => rows[k].Error \in TaggedKinds
    /\ C4_Scenario =>
          /\ Len(DataRows(JobsFile)) = 2
          /\ Len(DataRows(ErrorFile)) = 1
          /\ CountFor(DataRows(ErrorFile), "Nil Co") = 1
          /\ Len(DataRows(NoJobsFile)) = 0

\* A supplied range with 0 <= s <= e < N.
ValidSuppliedRange ==
    /\ WellFormedInput /\ EndGiven
    /\ 0 <= start_arg /\ start_arg <= end_arg[1] /\ end_arg[1] < Total

\* C5 as stated: on a valid range [s,e] every row index in [s,e] is attempted
\* exactly once and no row outside [s,e] is attempted.
C5_EveryIndexAttempted ==
    (ValidSuppliedRange /\ result = "completed") =>
        \A i \in RowIdx :
            attempts[i] = IF start_arg <= i /\ i <= end_arg[1] THEN 1 ELSE 0

\* C5, amended: on a valid range [s,e] every row of [s,e] whose company name
\* is present is attempted exactly once by the end of the run, and never more
\* than once; rows without a company name and rows outside [s,e] are never
\* attempted.
C5_NamedRowsAttempted ==
    ValidSuppliedRange =>
        \A i \in RowIdx :
            IF start_arg <= i /\ i <= end_arg[1] /\ HasCompany(i)
            THEN attempts[i] <= 1 /\ (result = "completed" => attempts[i] = 1)
            ELSE attempts[i] = 0

\* C5's case: range [0,1] of a file whose first row has no company name: the
\* run is over, row 0 was passed over and row 1 was attempted once.
C5_Witness ==
    /\ ValidSuppliedRange /\ result = "completed"
    /\ start_arg = 0 /\ end_arg[1] = 1
    /\ ~HasCompany(0) /\ attempts[0] = 0 /\ attempts[1] = 1

\* C6: when the supplied range has start > end or start < 0, the run aborts
\* at once: the loop is never entered, no company is attempted, and no file or
\* directory is created or modified.
C6_InvalidRangeNoEffect ==
    (start_arg < 0 \/ (EndGiven /\ start_arg > end_arg[1])) =>
        /\ pc # "loop"
        /\ result \in {"running", "range_error", "input_error"}
        /\ NoAttempt
        /\ fs = atStart.fs
        /\ outDirExists = atStart.dir

\* C6's case: start > end inside a readable file (start=1, end=0, two rows),
\* and the run has ended with the range error.
C6_Witness ==
    /\ result = "range_error"
    /\ EndGiven /\ 0 <= end_arg[1] /\ end_arg[1] < start_arg /\ start_arg < Total

\* C7 as stated: unless 0 <= start <= end < total the run fails with a range
\* error and attempts no company; so with a supplied end >= total nothing is
\* attempted.
C7_RangeValidated ==
    (WellFormedInput /\ EndGiven
        /\ ~(0 <= start_arg /\ start_arg <= end_arg[1] /\ end_arg[1] < Total)) =>
        /\ NoAttempt
        /\ pc = "done" => result = "range_error"

\* C7, amended: a supplied end >= total (like a missing end) is taken as
\* total-1, and the run then validates 0 <= start <= end: if that fails, the
\* run ends with a range error and attempts nothing; otherwise it processes
\* start..end, so with end >= total and 0 <= start < total the rows
\* start..total-1 that name a company are each attempted.
C7_RangeClampedThenValidated ==
    WellFormedInput =>
        LET e == IF ~EndGiven \/ end_arg[1] > Total - 1 THEN Total - 1 ELSE end_arg[1]
        IN  IF start_arg < 0 \/ start_arg > e
            THEN /\ NoAttempt
                 /\ pc # "loop"
                 /\ pc = "done" => result = "range_error"
            ELSE /\ pc = "done" =>
                    /\ result = "completed"
                    /\ \A i \in start_arg .. e : HasCompany(i) => attempts[i] = 1
                 /\ \A i \in RowIdx : (i < start_arg \/ i > e) => attempts[i] = 0

\* C7's case: end was supplied beyond the last row, and the run completed with
\* the last row of the file attempted.
C7_Witness ==
    /\ WellFormedInput /\ EndGiven /\ end_arg[1] >= Total
    /\ result = "completed"
    /\ Total >= 1 /\ attempts[Total - 1] = 1

\* C8: if the resolution of the company's own name fails while its fallback
\* name is one the services resolve and have postings for, then (the writes
\* succeeding) rows reach jobs.csv, and they carry the original company name.
C8_FallbackAfterFailedLookup ==
    (PrimaryLookupFailed /\ NoWriteFailure /\ last.fallback \in FallbackNames
        /\ last.w.r2 = "id" /\ last.w.f2 = "rows") =>
        /\ Len(AddedRows(JobsFile)) > 0
        /\ \A k \in 1 .. Len(AddedRows(JobsFile)) :
              AddedRows(JobsFile)[k].company = last.company

\* How often the latest iteration looked the fallback name up.
FallbackLookups ==
    Cardinality({k \in 1 .. Len(last.calls) : k >= 3 /\ last.calls[k][1] = "resolve"})

\* C9: for every company the resolution and fetch with the fallback name
\* happen exactly once when the primary fetch yields zero rows and the row has
\* a fallback name, and never otherwise: not when the primary fetch returned
\* rows, and not when the row has no fallback name (no column, or no value in
\* the cell).
C9_FallbackExactlyWhenNamed ==
    Processed =>
        IF last.w.r1 = "id" /\ last.w.f1 = "none" /\ last.fallback \in FallbackNames
        THEN FallbackLookups = 1
        ELSE FallbackLookups = 0 /\ Len(last.calls) <= 2

\* The dedupe key of a row of jobs.csv.
Key(row) == <<row.title, row.company, row.location>>

\* C10: dedupe holds at every merge point: after any sequence of per-company
\* appends, jobs.csv holds at most one row per (title, company, location).
C10_OneRowPerKey ==
    LET rows == DataRows(JobsFile)
    IN  \A i, j \in 1 .. Len(rows) : Key(rows[i]) = Key(rows[j]) => i = j

\* The run before the current one.
PrevRun == runs[Len(runs)]

\* The current run follows a successful full run on the same input: that run
\* went through the whole file, every row names a company, and each of them
\* had its postings appended to jobs.csv.
AfterSuccessfulFullRun ==
    /\ runs # <<>>
    /\ PrevRun.result = "completed"
    /\ WellFormedInput /\ Total > 0
    /\ \A i \in 0 .. Total - 1 : HasCompany(i)
    /\ PrevRun.added = Total * Len(scrape_jobs(101, Location, "rows"))

\* C11: idempotence: a re-run with the same input, range and output directory
\* after a successful full run attempts no company and leaves jobs.csv as it
\* was.
C11_RerunIdempotent ==
    AfterSuccessfulFullRun =>
        /\ NoAttempt
        /\ fs[JobsFile] = atStart.fs[JobsFile]

\* C12: a malformed input (the file is missing, or it has no 'Company'
\* column) is fatal before the loop: the run stops with the input error, the
\* loop is never entered, no company is attempted (no lookup, no fetch), and
\* nothing is written: jobs.csv, both logs and the output directory stay as
\* they were.
C12_MalformedInputNoEffect ==
    ~(csv.exists /\ csv.hasCompany) =>
        /\ pc # "loop"
        /\ result \in {"running", "input_error"}
        /\ NoAttempt
        /\ fs = atStart.fs
        /\ outDirExists = atStart.dir

\* C12's case: the file is there but has no 'Company' column, and the run has
\* ended on that.
C12_Witness ==
    /\ csv.exists /\ ~csv.hasCompany
    /\ pc = "done" /\ result = "input_error"

\* The specification's batch size: rows are to be buffered and flushed to
\* jobs.csv after every BatchSize-th processed company. The source has no
\* such number: it appends each company's rows at once (line 165).
BatchSize == 40

\* Rows jobs.csv has gained since this run began.
RowsSinceStart ==
    Len(rows_of(fs[JobsFile])) - Len(rows_of(atStart.fs[JobsFile]))

\* C13: with batch size 40, rows reach the main output only at the flushes
\* after every 40th processed company and at the final flush after the loop:
\* while the loop has gone through fewer than BatchSize rows of the range,
\* jobs.csv has gained no row yet.
C13_RowsOnlyAtFlushes ==
    (pc = "loop" /\ idx - start_arg < BatchSize) => RowsSinceStart = 0

\* A failure occurred in the latest iteration: a lookup failed, a fetch
\* raised, int() refused the id, or the append to jobs.csv failed.
FailureOccurred ==
    /\ Processed
    /\ \/ PrimaryLookupFailed
       \/ FetchRaised
       \/ (FallbackTried /\ last.w.r2 \in ResolveFailures)
       \/ (last.w.jobsFails /\ Len(AddedRows(JobsFile)) = 0)

\* Every line a file held is still there, unchanged, after a step.
IsPrefix(s, t) == Len(s) <= Len(t) /\ SubSeq(t, 1, Len(s)) = s
LogsAppendOnly ==
    \A p \in {ErrorFile, CwdErrorFile} : IsPrefix(fs[p].lines, fs'[p].lines)

\* C14: every ErrorEntry is persisted immediately: when the run moves on from
\* a company (the log writes succeeding), the failure that occurred in its
\* iteration already has an entry in an error_records.csv, and no step ever
\* removes or rewrites an entry that is in the log.
C14_ErrorsPersistedAtOnce ==
    /\ [](FailureOccurred /\ ~last.w.logFails =>
            Len(AddedRows(ErrorFile)) + Len(AddedRows(CwdErrorFile)) >= 1)
    /\ [][LogsAppendOnly]_vars

\* What "header on first write, rows appended thereafter" leaves in a file
\* that holds data: one header line naming the columns, then data rows only.
HeaderThenRows(f) ==
    /\ f.lines[1].t = "header"
    /\ f.lines[1].cols # <<>>
    /\ \A i \in 2 .. Len(f.lines) : f.lines[i].t = "row"

\* C15: every output file (jobs.csv, no_jobs_found.csv, error_records.csv)
\* gets its header on the first write and only data rows after it: in every
\* reachable state a file that holds data starts with exactly one header line
\* naming its columns, followed only by data rows.
C15_HeaderOnFirstWrite ==
    \A p \in Paths : DataRows(p) # <<>> => HeaderThenRows(fs[p])

\* The lookup of the company's own name ended in one of the three except
\* clauses of get_company_linkedin_id, which write an error record.
ResolverLoggedError == Processed /\ last.w.r1 \in ErrorKinds

\* C16: every error record of a run of run_through_csv(csv, location,
\* output_dir), the driver's or the resolver's, goes to error_records.csv
\* inside output_dir: the record of a failed lookup is added there (the write
\* succeeding), and the error_records.csv of the working directory is left as
\* it was when the run began.
C16_ErrorsInOutputDir ==
    /\ fs[CwdErrorFile] = atStart.fs[CwdErrorFile]
    /\ (ResolverLoggedError /\ ~last.w.logFails) =>
          CountFor(AddedRows(ErrorFile), last.company) = 1

\* The outcomes the driver recorded for the company of the latest iteration:
\* its rows appended to jobs.csv, its entries in no_jobs_found.csv, and the
\* entries the except clause of line 167 wrote for it to error_records.csv.
RowsAppended == IF AddedRows(JobsFile) # <<>> THEN 1 ELSE 0
NoJobsEntries == CountFor(AddedRows(NoJobsFile), last.company)
DriverErrorEntries ==
    Cardinality({i \in 1 .. Len(AddedRows(ErrorFile)) :
                    /\ AddedRows(ErrorFile)[i].Company = last.company
                    /\ AddedRows(ErrorFile)[i].Error = "to_csv failed"})

\* C17: with the writes to the logs succeeding, every attempted company has
\* exactly one outcome recorded by the driver: its rows were appended to
\* jobs.csv, or one entry for it went to the no-jobs log, or one entry for it
\* went to the error log from the driver; never two of these and never none.
\* It holds after every iteration, so at the end of the run it holds of every
\* company attempted; the driver writes no entry under another name.
C17_OneDriverOutcome ==
    (Processed /\ ~last.w.logFails) =>
        /\ RowsAppended + NoJobsEntries + DriverErrorEntries = 1
        /\ Len(AddedRows(NoJobsFile)) = NoJobsEntries

\* C17's case: a run over two companies has ended with every write having
\* succeeded; one company's rows are in jobs.csv and the other has its one
\* entry in the no-jobs log.
C17_Witness ==
    /\ pc = "done" /\ result = "completed"
    /\ Total = 2 /\ attempts[0] = 1 /\ attempts[1] = 1
    /\ NoWriteFailure
    /\ DataRows(JobsFile) # <<>>
    /\ Len(DataRows(NoJobsFile)) = 1
    /\ RowsAppended + NoJobsEntries = 1

\* The loop is at a row of the range whose 'Company' cell is empty (NaN).
AtMissingName ==
    /\ pc = "loop" /\ idx <= end_idx /\ idx < Total
    /\ iloc(csv.rows, idx).company = NaN

\* C18: a row of the range whose company name is missing (NaN) is skipped
\* with no effect: the step taken at such a row makes no lookup and no fetch
\* (the row counts no attempt and the step is recorded as a skip), leaves
\* jobs.csv, the no-jobs log and both error logs as they were, and the run
\* goes on with the next row.
C18_MissingNameSkipped ==
    [][AtMissingName =>
          /\ fs' = fs
          /\ attempts' = attempts
          /\ last'.kind = "skip"
          /\ pc' = "loop" /\ idx' = idx + 1
          /\ result' = result]_vars

\* C18's case: row 0 has no company name and was skipped, and the run went
\* on to process row 1.
C18_Witness ==
    /\ Total = 2 /\ start_arg = 0
    /\ iloc(csv.rows, 0).company = NaN
    /\ attempts[0] = 0
    /\ Processed /\ last.idx = 1 /\ attempts[1] = 1

====
